---- MODULE Spec2Model ----
(***************************************************************************)
(* State-machine model of src/src/SmsBridge.js: the admin-room directory   *)
(* (_adminRooms), the asynchronous handlers that feed it (_bridgeKnownRooms,*)
(* _onEvent, getOrCreateAdminRoom, _processRoom) and the transport calls   *)
(* they wait on.  Every handler invocation is a task; a task's pc names    *)
(* the transport promise it is waiting for.                                *)
(***************************************************************************)
EXTENDS Integers, Sequences, FiniteSets, Bags, TLC

\* ---------------------------------------------------------------- bounds
\* rooms the bridge bot may already know when the process starts
MaxKnownRooms == 1
\* handler invocations (_onEvent, getOrCreateAdminRoom) during a run
MaxHandlers == 2
\* membership changes made by the homeserver's other users during a run
MaxChanges == 1

\* ------------------------------------------------------------ identities
\* A matrix user ID is the sequence of its lexical parts, so that
\* startsWith/endsWith are computed on it.  undefined and null are the two
\* JavaScript non-values a handle or an owner can be.
Undefined == <<"undefined">>
Null == <<"null">>
HomeserverDomain == "hs"
Bot == <<"@", "smsbot", ":", "hs">>
Alice == <<"@", "alice", ":", "hs">>
Sms1 == <<"@", "_sms_", "1", ":", "hs">>
\* a user of another homeserver
Carol == <<"@", "carol", ":", "other">>
\* an identity with the virtual-SMS prefix on another homeserver
SmsElsewhere == <<"@", "_sms_", "1", ":", "other">>
Users == {Bot, Alice, Sms1}
RealUsers == {Alice}

KnownRooms == 1..MaxKnownRooms
\* createRoom hands out a fresh room ID per successful call
RoomIds == 1..(MaxKnownRooms + MaxHandlers)
\* the roomId of a task that has no room (yet)
NoRoom == 0

VARIABLES
    running,      \* run() has started the bridge
    rooms,        \* homeserver: the rooms that exist
    members,      \* homeserver: room -> set of joined user IDs
    adminRooms,   \* this._adminRooms, entries in key (insertion) order
    tasks,        \* bag of the handler invocations waiting on the transport
    welcomes,     \* room -> number of sendText(welcome) calls
    createCalls,  \* number of createRoom calls made to the transport
    nHandlers,    \* handler invocations so far
    nChanges,     \* membership changes so far
    outcome,      \* what the handler that ran last did and returned
    lastDone,     \* inputs of the latest _processRoom callback that ran
    lastEvent,    \* the event outcome is about, while outcome is what the
                  \* synchronous part of _onEvent did with it
    raced         \* rooms registered while the classifications of that room
                  \* that are now in flight were already in flight

vars == <<running, rooms, members, adminRooms, tasks, welcomes, createCalls,
          nHandlers, nChanges, outcome, lastDone, lastEvent, raced>>

\* ------------------------------------------------------- JavaScript values
Truthy(v) == v # Undefined /\ v # Null

\* a || b
Or(a, b) == IF Truthy(a) THEN a ELSE b

\* String.prototype.startsWith / endsWith on the lexical parts
startsWith(handle, prefix) ==
    /\ Len(handle) >= Len(prefix)
    /\ SubSeq(handle, 1, Len(prefix)) = prefix

endsWith(handle, suffix) ==
    /\ Len(handle) >= Len(suffix)
    /\ SubSeq(handle, Len(handle) - Len(suffix) + 1, Len(handle)) = suffix

\* isBridgeUser(handle): the value it returns when it returns
isBridgeUser(handle) ==
    \/ Bot = handle
    \/ /\ startsWith(handle, <<"@", "_sms_">>)
       /\ endsWith(handle, <<":", HomeserverDomain>>)

\* isBridgeUser(handle) raises a TypeError: handle.startsWith on a non-value
isBridgeUserThrows(handle) == Bot # handle /\ ~Truthy(handle)

\* Array.prototype.indexOf, 0-based, -1 when absent
indexOf(arr, x) ==
    IF \E i \in 1..Len(arr) : arr[i] = x
    THEN (CHOOSE i \in 1..Len(arr) : arr[i] = x /\ \A j \in 1..(i-1) : arr[j] # x) - 1
    ELSE -1

\* arr[k], 0-based, undefined out of range
At(arr, k) == IF k >= 0 /\ k < Len(arr) THEN arr[k + 1] ELSE Undefined

\* _.keys(members): the member IDs in the key order of the transport's answer
KeyOrders(S) ==
    {s \in [1..Cardinality(S) -> S] : \A i, j \in 1..Cardinality(S) : i # j => s[i] # s[j]}

\* ------------------------------------------------------------- directory
Entry(roomId, owner) == [roomId |-> roomId, owner |-> owner]

\* this._adminRooms[roomId] is set
HasRoom(dir, roomId) == \E i \in 1..Len(dir) : dir[i].roomId = roomId

\* this._adminRooms[roomId] (only used when set)
RoomEntry(dir, roomId) == dir[CHOOSE i \in 1..Len(dir) : dir[i].roomId = roomId]

PutAppend(dir, roomId, owner) == Append(dir, Entry(roomId, owner))

PutReset(dir, roomId, owner) == <<Entry(roomId, owner)>>

\* this._adminRooms[roomId] = new AdminRoom(roomId, this, owner): an existing
\* key keeps its place in the key order, a new key goes last
Put(dir, roomId, owner) ==
    IF HasRoom(dir, roomId)
    THEN [i \in 1..Len(dir) |->
            IF dir[i].roomId = roomId THEN Entry(roomId, owner) ELSE dir[i]]
    ELSE Append(dir, Entry(roomId, owner))

OwnerScanNone(dir, userId) == 0

\* the scan at the head of getOrCreateAdminRoom: index of the first entry in
\* key order whose owner === userId, 0 when there is none
OwnerScan(dir, userId) ==
    IF \E i \in 1..Len(dir) : dir[i].owner = userId
    THEN CHOOSE i \in 1..Len(dir) :
            dir[i].owner = userId /\ \A j \in 1..(i-1) : dir[j].owner # userId
    ELSE 0

\* ------------------------------------------------------------ _processRoom
OtherUserIdFirst(roomMemberIds, botIdx) == At(roomMemberIds, 0)

\* roomMemberIds[botIdx == 0 ? 1 : 0]
OtherUserId(roomMemberIds, botIdx) ==
    At(roomMemberIds, IF botIdx = 0 THEN 1 ELSE 0)

IsAdminRoomAtLeastTwo(roomMemberIds, adminRoomOwner) ==
    Len(roomMemberIds) >= 2 \/ Truthy(adminRoomOwner)

\* roomMemberIds.length == 2 || adminRoomOwner
IsAdminRoom(roomMemberIds, adminRoomOwner) ==
    Len(roomMemberIds) = 2 \/ Truthy(adminRoomOwner)

\* otherUserId || adminRoomOwner
RoomOwner(roomMemberIds, adminRoomOwner) ==
    Or(OtherUserId(roomMemberIds, indexOf(roomMemberIds, Bot)), adminRoomOwner)

SendsWelcomeAlways(newRoom) == TRUE

\* if (newRoom) sendText(...)
SendsWelcome(newRoom) == newRoom

\* ------------------------------------------------------------------ tasks
Task(kind, pc, roomId, adminRoomOwner, newRoom, userId, roomMemberIds) ==
    [kind |-> kind, pc |-> pc, roomId |-> roomId,
     adminRoomOwner |-> adminRoomOwner, newRoom |-> newRoom,
     userId |-> userId, roomMemberIds |-> roomMemberIds]

Waiting == BagToSet(tasks)

\* the task t moves on as task u
Move(t, u) == (tasks (-) SetToBag({t})) (+) SetToBag({u})

\* the task t settles and leaves
Settle(t) == tasks (-) SetToBag({t})

\* what a handler did: kind of handler, how its promise or call ended
\* ("pending" while it waits on the transport), the room, and for an event
\* whether it went to AdminRoom.handleEvent and to _processMessage
Outcome(kind, result, roomId, dispatched, relayed) ==
    [kind |-> kind, result |-> result, roomId |-> roomId,
     dispatched |-> dispatched, relayed |-> relayed]

\* the inputs of a _processRoom callback; repeat: the callback that ran
\* before it had the same inputs
Done(roomId, adminRoomOwner, roomMemberIds, repeat) ==
    [roomId |-> roomId, adminRoomOwner |-> adminRoomOwner,
     roomMemberIds |-> roomMemberIds, repeat |-> repeat]

NoneDone == Done(NoRoom, Null, <<>>, FALSE)

\* the callback of task t has the inputs of the callback that ran last
SameInputs(t) ==
    /\ lastDone.roomId = t.roomId
    /\ lastDone.adminRoomOwner = t.adminRoomOwner
    /\ lastDone.roomMemberIds = t.roomMemberIds

\* ----------------------------------------------------------------- events
Event(type, room_id, sender, state_key, hasContent, membership) ==
    [type |-> type, room_id |-> room_id, sender |-> sender,
     state_key |-> state_key, hasContent |-> hasContent,
     membership |-> membership]

\* the events the transport delivers for room r
EventInputs(r) ==
    {Event("m.room.member", r, Alice, k, TRUE, "invite") :
        k \in {Bot, Sms1, Carol, SmsElsewhere, Undefined}}
    \cup {Event("m.room.member", r, Alice, Bot, TRUE, "join"),
          Event("m.room.member", r, Alice, Bot, FALSE, "undefined"),
          Event("m.room.message", r, Alice, Undefined, TRUE, "undefined"),
          Event("m.room.message", r, Bot, Undefined, TRUE, "undefined"),
          Event("m.room.topic", r, Alice, Undefined, TRUE, "undefined")}

\* phone numbers, as sequences of digits
PhoneNumbers == {<<"1">>, <<"1", "5">>}

\* the user ID of the intent getSmsIntent(phoneNumber) acts as: the localpart
\* "_sms_" + phoneNumber on the bridge's homeserver
getSmsIntent(phoneNumber) ==
    <<"@", "_sms_">> \o phoneNumber \o <<":", HomeserverDomain>>

\* outcome is not about the synchronous part of an event
NoEvent == Event("none", NoRoom, Null, Null, FALSE, "undefined")

\* the classifications of room roomId in flight: _processRoom has been called
\* and its callback has not run
InFlight(bag, roomId) ==
    {u \in BagToSet(bag) : u.roomId = roomId /\ u.pc \in {"members", "then"}}

Init ==
    /\ running = FALSE
    /\ rooms = KnownRooms
    /\ members \in [RoomIds -> SUBSET Users]
    /\ \A r \in RoomIds \ KnownRooms : members[r] = {}
    /\ adminRooms = <<>>
    /\ tasks = EmptyBag
    /\ welcomes = [r \in RoomIds |-> 0]
    /\ createCalls = 0
    /\ nHandlers = 0
    /\ nChanges = 0
    /\ outcome = Outcome("none", "resolved", NoRoom, FALSE, FALSE)
    /\ lastDone = NoneDone
    /\ lastEvent = NoEvent
    /\ raced = {}

\* ------------------------------------------------------------ run / scan
\* run(port): the bridge starts listening and _bridgeKnownRooms asks the
\* transport for the bot's joined rooms
Run ==
    /\ ~running
    /\ running' = TRUE
    /\ tasks' = tasks (+) SetToBag({Task("scan", "joinedRooms", NoRoom, Null, FALSE, Null, <<>>)})
    /\ outcome' = Outcome("scan", "pending", NoRoom, FALSE, FALSE)
    /\ lastEvent' = NoEvent
    /\ UNCHANGED <<rooms, members, adminRooms, welcomes, createCalls,
                   nHandlers, nChanges, lastDone,
                   raced>>

GetJoinedRoomsOkNewRoom(t) ==
    /\ t.pc = "joinedRooms"
    /\ tasks' = Settle(t) (+)
          SetToBag({Task("scanRoom", "members", r, Null, TRUE, Null, <<>>) :
                      r \in {q \in rooms : Bot \in members[q]}})
    /\ outcome' = Outcome("scan", "resolved", NoRoom, FALSE, FALSE)
    /\ lastEvent' = NoEvent
    /\ raced' = raced \ {q \in rooms : Bot \in members[q]}
    /\ UNCHANGED <<running, rooms, members, adminRooms, welcomes, createCalls,
                   nHandlers, nChanges, lastDone>>

\* getJoinedRooms() resolves: _processRoom(roomId) is called for every room,
\* each call issuing its getJoinedMembers request
GetJoinedRoomsOk(t) ==
    /\ t.pc = "joinedRooms"
    /\ tasks' = Settle(t) (+)
          SetToBag({Task("scanRoom", "members", r, Null, FALSE, Null, <<>>) :
                      r \in {q \in rooms : Bot \in members[q]}})
    /\ outcome' = Outcome("scan", "resolved", NoRoom, FALSE, FALSE)
    /\ lastEvent' = NoEvent
    /\ raced' = raced \ {q \in rooms : Bot \in members[q]}
    /\ UNCHANGED <<running, rooms, members, adminRooms, welcomes, createCalls,
                   nHandlers, nChanges, lastDone>>

\* getJoinedRooms() rejects: nothing is processed
GetJoinedRoomsFail(t) ==
    /\ t.pc = "joinedRooms"
    /\ tasks' = Settle(t)
    /\ outcome' = Outcome("scan", "rejected", NoRoom, FALSE, FALSE)
    /\ lastEvent' = NoEvent
    /\ UNCHANGED <<running, rooms, members, adminRooms, welcomes, createCalls,
                   nHandlers, nChanges, lastDone,
                   raced>>

\* ----------------------------------------------------------- _processRoom
\* getJoinedMembers(roomId) resolves with the room's members in some key order
GetJoinedMembersOk(t) ==
    /\ t.pc = "members"
    /\ \E ids \in KeyOrders(members[t.roomId]) :
          tasks' = Move(t, [t EXCEPT !.pc = "then", !.roomMemberIds = ids])
    /\ UNCHANGED <<running, rooms, members, adminRooms, welcomes, createCalls,
                   nHandlers, nChanges, outcome, lastDone,
                   lastEvent, raced>>

GetJoinedMembersFailRegisters(t) ==
    /\ t.pc = "members"
    /\ tasks' = Settle(t)
    /\ outcome' = Outcome(t.kind, "rejected", t.roomId, FALSE, FALSE)
    /\ adminRooms' = Put(adminRooms, t.roomId, t.adminRoomOwner)
    /\ lastEvent' = NoEvent
    /\ UNCHANGED <<running, rooms, members, welcomes, createCalls,
                   nHandlers, nChanges, lastDone,
                   raced>>

\* getJoinedMembers(roomId) rejects: the then-callback never runs and the
\* rejection reaches the caller of _processRoom
GetJoinedMembersFail(t) ==
    /\ t.pc = "members"
    /\ tasks' = Settle(t)
    /\ outcome' = Outcome(t.kind, "rejected", t.roomId, FALSE, FALSE)
    /\ lastEvent' = NoEvent
    /\ UNCHANGED <<running, rooms, members, adminRooms, welcomes, createCalls,
                   nHandlers, nChanges, lastDone,
                   raced>>

\* the then-callback of _processRoom, and for getOrCreateAdminRoom the
\* callback chained on it
ProcessRoomThen(t) ==
    /\ t.pc = "then"
    /\ LET admin == IsAdminRoom(t.roomMemberIds, t.adminRoomOwner)
           dir == IF admin
                  THEN Put(adminRooms, t.roomId,
                           RoomOwner(t.roomMemberIds, t.adminRoomOwner))
                  ELSE adminRooms
       IN /\ adminRooms' = dir
          /\ welcomes' = IF admin /\ SendsWelcome(t.newRoom)
                         THEN [welcomes EXCEPT ![t.roomId] = @ + 1]
                         ELSE welcomes
          /\ outcome' = Outcome(t.kind,
                                IF t.kind = "getOrCreate" /\ ~HasRoom(dir, t.roomId)
                                THEN "rejected" ELSE "resolved",
                                t.roomId, FALSE, FALSE)
    /\ tasks' = Settle(t)
    /\ lastDone' = Done(t.roomId, t.adminRoomOwner, t.roomMemberIds, SameInputs(t))
    /\ lastEvent' = NoEvent
    /\ raced' = IF IsAdminRoom(t.roomMemberIds, t.adminRoomOwner)
                   /\ InFlight(Settle(t), t.roomId) # {}
                THEN raced \cup {t.roomId} ELSE raced
    /\ UNCHANGED <<running, rooms, members, createCalls, nHandlers, nChanges>>

\* ---------------------------------------------------------------- _onEvent
\* the value of the invite test, when evaluating it does not raise
IsBridgeInvite(event) ==
    /\ event.type = "m.room.member"
    /\ event.membership = "invite"
    /\ isBridgeUser(event.state_key)

\* evaluating the invite test raises a TypeError: event.content is absent, or
\* isBridgeUser is reached with an absent state_key
InviteTestThrows(event) ==
    /\ event.type = "m.room.member"
    /\ \/ ~event.hasContent
       \/ event.membership = "invite" /\ isBridgeUserThrows(event.state_key)

OnEventRelaysAll(event) ==
    /\ running
    /\ nHandlers < MaxHandlers
    /\ nHandlers' = nHandlers + 1
    /\ LET dispatched == HasRoom(adminRooms, event.room_id)
       IN IF InviteTestThrows(event)
          THEN /\ outcome' = Outcome("event", "threw", event.room_id, dispatched, FALSE)
               /\ tasks' = tasks
          ELSE IF IsBridgeInvite(event)
          THEN /\ outcome' = Outcome("event", "pending", event.room_id, dispatched, FALSE)
               /\ tasks' = tasks (+) SetToBag({Task("event", "join", event.room_id,
                                                   Null, TRUE, event.state_key, <<>>)})
          ELSE /\ outcome' = Outcome("event", "resolved", event.room_id, dispatched,
                                     event.type = "m.room.message")
               /\ tasks' = tasks
    /\ lastEvent' = event
    /\ UNCHANGED <<running, rooms, members, adminRooms, welcomes, createCalls,
                   nChanges, lastDone, raced>>

\* the synchronous part of _onEvent(request, context)
OnEvent(event) ==
    /\ running
    /\ nHandlers < MaxHandlers
    /\ nHandlers' = nHandlers + 1
    /\ LET dispatched == HasRoom(adminRooms, event.room_id)  \* _tryProcessAdminEvent
       IN IF InviteTestThrows(event)
          THEN /\ outcome' = Outcome("event", "threw", event.room_id, dispatched, FALSE)
               /\ tasks' = tasks
          ELSE IF IsBridgeInvite(event)
          THEN \* intent.join(room_id) is in flight
               /\ outcome' = Outcome("event", "pending", event.room_id, dispatched, FALSE)
               /\ tasks' = tasks (+) SetToBag({Task("event", "join", event.room_id,
                                                   Null, TRUE, event.state_key, <<>>)})
          ELSE IF event.type = "m.room.message" /\ event.sender # Bot
          THEN \* _processMessage(event)
               /\ outcome' = Outcome("event", "resolved", event.room_id, dispatched, TRUE)
               /\ tasks' = tasks
          ELSE /\ outcome' = Outcome("event", "resolved", event.room_id, dispatched, FALSE)
               /\ tasks' = tasks
    /\ lastEvent' = event
    /\ UNCHANGED <<running, rooms, members, adminRooms, welcomes, createCalls,
                   nChanges, lastDone,
                   raced>>

\* join(room_id) resolves: the invited identity is now a member, and
\* _processRoom(room_id, null, true) issues its getJoinedMembers request
JoinOk(t) ==
    /\ t.pc = "join"
    /\ members' = [members EXCEPT ![t.roomId] = @ \cup {t.userId}]
    /\ tasks' = Move(t, [t EXCEPT !.pc = "members"])
    /\ raced' = raced \ {t.roomId}
    /\ UNCHANGED <<running, rooms, adminRooms, welcomes, createCalls,
                   nHandlers, nChanges, outcome, lastDone,
                   lastEvent>>

JoinFailProcesses(t) ==
    /\ t.pc = "join"
    /\ tasks' = Move(t, [t EXCEPT !.pc = "members"])
    /\ outcome' = Outcome("event", "rejected", t.roomId, FALSE, FALSE)
    /\ lastEvent' = NoEvent
    /\ UNCHANGED <<running, rooms, members, adminRooms, welcomes, createCalls,
                   nHandlers, nChanges, lastDone, raced>>

\* join(room_id) rejects: _processRoom is never called
JoinFail(t) ==
    /\ t.pc = "join"
    /\ tasks' = Settle(t)
    /\ outcome' = Outcome("event", "rejected", t.roomId, FALSE, FALSE)
    /\ lastEvent' = NoEvent
    /\ UNCHANGED <<running, rooms, members, adminRooms, welcomes, createCalls,
                   nHandlers, nChanges, lastDone,
                   raced>>

\* ---------------------------------------------------- getOrCreateAdminRoom
\* the synchronous part of getOrCreateAdminRoom(userId): the owner scan, and
\* the createRoom request when the scan finds nothing
GetOrCreateAdminRoom(userId) ==
    /\ nHandlers < MaxHandlers
    /\ nHandlers' = nHandlers + 1
    /\ LET found == OwnerScan(adminRooms, userId)
       IN IF found # 0
          THEN /\ outcome' = Outcome("getOrCreate", "resolved",
                                     adminRooms[found].roomId, FALSE, FALSE)
               /\ tasks' = tasks
               /\ createCalls' = createCalls
          ELSE /\ outcome' = Outcome("getOrCreate", "pending", NoRoom, FALSE, FALSE)
               /\ tasks' = tasks (+) SetToBag({Task("getOrCreate", "createRoom",
                                                   NoRoom, userId, FALSE, userId, <<>>)})
               /\ createCalls' = createCalls + 1
    /\ lastEvent' = NoEvent
    /\ UNCHANGED <<running, rooms, members, adminRooms, welcomes,
                   nChanges, lastDone,
                   raced>>

\* createRoom resolves with a new room the bot has joined and userId is
\* invited to; _processRoom(newRoomId, userId) issues getJoinedMembers
CreateRoomOk(t) ==
    /\ t.pc = "createRoom"
    /\ rooms # RoomIds
    /\ LET newRoomId == CHOOSE r \in RoomIds \ rooms : \A q \in RoomIds \ rooms : r <= q
       IN /\ rooms' = rooms \cup {newRoomId}
          /\ members' = [members EXCEPT ![newRoomId] = {Bot}]
          /\ tasks' = Move(t, [t EXCEPT !.pc = "members", !.roomId = newRoomId])
          /\ raced' = raced \ {newRoomId}
    /\ UNCHANGED <<running, adminRooms, welcomes, createCalls,
                   nHandlers, nChanges, outcome, lastDone,
                   lastEvent>>

\* createRoom rejects
CreateRoomFail(t) ==
    /\ t.pc = "createRoom"
    /\ tasks' = Settle(t)
    /\ outcome' = Outcome("getOrCreate", "rejected", NoRoom, FALSE, FALSE)
    /\ lastEvent' = NoEvent
    /\ UNCHANGED <<running, rooms, members, adminRooms, welcomes, createCalls,
                   nHandlers, nChanges, lastDone,
                   raced>>

\* ------------------------------------------------------------- homeserver
\* some user joins a room on their own
MemberJoins(r, u) ==
    /\ nChanges < MaxChanges
    /\ r \in rooms /\ u \notin members[r]
    /\ members' = [members EXCEPT ![r] = @ \cup {u}]
    /\ nChanges' = nChanges + 1
    /\ UNCHANGED <<running, rooms, adminRooms, tasks, welcomes, createCalls,
                   nHandlers, outcome, lastDone,
                   lastEvent, raced>>

\* some user leaves a room
MemberLeaves(r, u) ==
    /\ nChanges < MaxChanges
    /\ r \in rooms /\ u \in members[r]
    /\ members' = [members EXCEPT ![r] = @ \ {u}]
    /\ nChanges' = nChanges + 1
    /\ UNCHANGED <<running, rooms, adminRooms, tasks, welcomes, createCalls,
                   nHandlers, outcome, lastDone,
                   lastEvent, raced>>

Next ==
    \/ Run
    \/ \E t \in Waiting : GetJoinedRoomsOk(t)
    \/ \E t \in Waiting : GetJoinedRoomsFail(t)
    \/ \E t \in Waiting : GetJoinedMembersOk(t)
    \/ \E t \in Waiting : GetJoinedMembersFail(t)
    \/ \E t \in Waiting : ProcessRoomThen(t)
    \/ \E r \in rooms : \E event \in EventInputs(r) : OnEvent(event)
    \/ \E t \in Waiting : JoinOk(t)
    \/ \E t \in Waiting : JoinFail(t)
    \/ \E userId \in RealUsers : GetOrCreateAdminRoom(userId)
    \/ \E t \in Waiting : CreateRoomOk(t)
    \/ \E t \in Waiting : CreateRoomFail(t)
    \/ \E r \in rooms, u \in Users : MemberJoins(r, u)
    \/ \E r \in rooms, u \in Users : MemberLeaves(r, u)

Spec == Init /\ [][Next]_vars

\* the bridge at startup: the scan, the events the homeserver delivers
\* meanwhile and membership changes (nothing in SmsBridge.js calls
\* getOrCreateAdminRoom)
StartupNext ==
    \/ Run
    \/ \E t \in Waiting : GetJoinedRoomsOk(t)
    \/ \E t \in Waiting : GetJoinedRoomsFail(t)
    \/ \E t \in Waiting : GetJoinedMembersOk(t)
    \/ \E t \in Waiting : GetJoinedMembersFail(t)
    \/ \E t \in Waiting : ProcessRoomThen(t)
    \/ \E r \in rooms : \E event \in EventInputs(r) : OnEvent(event)
    \/ \E t \in Waiting : JoinOk(t)
    \/ \E t \in Waiting : JoinFail(t)
    \/ \E r \in rooms, u \in Users : MemberJoins(r, u)
    \/ \E r \in rooms, u \in Users : MemberLeaves(r, u)

\* the then-callback of a resolved promise is run by the event loop: a
\* _processRoom callback whose membership fetch has answered is not left
\* waiting for ever
StartupSpec ==
    Init /\ [][StartupNext]_vars /\ WF_vars(\E t \in Waiting : ProcessRoomThen(t))

\* ================================================================ claims
Range(seq) == {seq[i] : i \in 1..Len(seq)}

\* the directory entries registered for a room
EntriesOf(dir, roomId) == {i \in 1..Len(dir) : dir[i].roomId = roomId}

\* this step is the _processRoom callback of task t
CallbackOf(t) == t.pc = "then" /\ tasks' = Settle(t)

\* this step is the rejection of task t's getJoinedMembers request
FetchFailureOf(t) == t.pc = "members" /\ tasks' = Settle(t)

\* C1: a callback with no forced owner whose fetched member list has exactly
\* two members, the bot among them at either position, leaves exactly one
\* entry for the room, owned by the member that is not the bot.
C1_TwoMembersWithBot ==
    [][\A t \in Waiting :
        (/\ CallbackOf(t)
         /\ ~Truthy(t.adminRoomOwner)
         /\ Len(t.roomMemberIds) = 2
         /\ Bot \in Range(t.roomMemberIds))
        => /\ Cardinality(EntriesOf(adminRooms', t.roomId)) = 1
           /\ \A i \in EntriesOf(adminRooms', t.roomId) :
                 Range(t.roomMemberIds) = {Bot, adminRooms'[i].owner}
                 /\ adminRooms'[i].owner # Bot]_vars

\* C1 witness: the bot came first in the member list and the other member
\* owns the room's session
C1_Witness ==
    /\ lastDone.roomId # NoRoom
    /\ ~Truthy(lastDone.adminRoomOwner)
    /\ lastDone.roomMemberIds = <<Bot, Alice>>
    /\ HasRoom(adminRooms, lastDone.roomId)
    /\ RoomEntry(adminRooms, lastDone.roomId).owner = Alice

\* C2: a callback with no forced owner whose fetched member list has 0, 1 or
\* 3 and more members changes neither the directory nor the welcome count and
\* its promise resolves.
C2_OtherSizesUntouched ==
    [][\A t \in Waiting :
        (/\ CallbackOf(t)
         /\ ~Truthy(t.adminRoomOwner)
         /\ Len(t.roomMemberIds) # 2)
        => /\ adminRooms' = adminRooms
           /\ welcomes' = welcomes
           /\ outcome'.result = "resolved"]_vars

\* C2 witness: a room of three members was classified by an accepted invite
\* and has no session and no welcome notice
C2_Witness ==
    /\ lastDone.roomId # NoRoom
    /\ ~Truthy(lastDone.adminRoomOwner)
    /\ Len(lastDone.roomMemberIds) = 3
    /\ outcome = Outcome("event", "resolved", lastDone.roomId, FALSE, FALSE)
    /\ ~HasRoom(adminRooms, lastDone.roomId)
    /\ welcomes[lastDone.roomId] = 0

\* C3 (as claimed): a callback with forced owner F registers the room with
\* owner F, whatever member list was fetched.
C3_ForcedOwnerIsOwner ==
    [][\A t \in Waiting :
        (CallbackOf(t) /\ Truthy(t.adminRoomOwner))
        => /\ HasRoom(adminRooms', t.roomId)
           /\ RoomEntry(adminRooms', t.roomId).owner = t.adminRoomOwner]_vars

\* C4 (as claimed): no two directory entries have the same owner.
C4_OneSessionPerOwner ==
    \A i, j \in 1..Len(adminRooms) :
        i # j => adminRooms[i].owner # adminRooms[j].owner

\* the createRoom calls made by the getOrCreateAdminRoom(userId) calls that
\* are in flight
InFlightCreateCalls(userId) ==
    LET own == {t \in Waiting : t.kind = "getOrCreate" /\ t.userId = userId}
        RECURSIVE Sum(_)
        Sum(S) == IF S = {} THEN 0
                  ELSE LET t == CHOOSE x \in S : TRUE
                       IN CopiesIn(t, tasks) + Sum(S \ {t})
    IN Sum(own)

\* C5 (as claimed): the getOrCreateAdminRoom(U) calls in flight at one time
\* have made one createRoom call between them, and while nothing but
\* getOrCreateAdminRoom has run the directory holds at most one session of U.
C5_OneCreatePerOwner ==
    \A userId \in RealUsers :
        /\ InFlightCreateCalls(userId) <= 1
        /\ ~running =>
             Cardinality({i \in 1..Len(adminRooms) : adminRooms[i].owner = userId}) <= 1

\* C6 (as claimed): no room is sent the welcome notice more than once.
C6_WelcomeAtMostOnce == \A r \in RoomIds : welcomes[r] <= 1

\* C7: a callback whose room, forced owner and fetched member list are those
\* of the callback that ran just before it leaves the directory as that one
\* left it, with one entry for the room when the room is administrative, and
\* sends no welcome notice unless it is itself flagged newRoom.
C7_Idempotent ==
    [][\A t \in Waiting :
        (CallbackOf(t) /\ SameInputs(t))
        => /\ adminRooms' = adminRooms
           /\ Cardinality(EntriesOf(adminRooms', t.roomId)) <= 1
           /\ (Len(t.roomMemberIds) = 2 \/ Truthy(t.adminRoomOwner))
                => Cardinality(EntriesOf(adminRooms', t.roomId)) = 1
           /\ ~t.newRoom => welcomes' = welcomes]_vars

\* C7 witness: the room was classified twice in a row with the same inputs,
\* first flagged newRoom and then not, and has its session and one welcome
C7_Witness ==
    /\ lastDone.repeat
    /\ outcome.kind = "scanRoom"
    /\ HasRoom(adminRooms, lastDone.roomId)
    /\ welcomes[lastDone.roomId] = 1

\* C8 (as claimed): right after a callback registered room R with owner U,
\* the owner scan for U finds the session of room R.
C8_OwnerScanFindsRoom ==
    [][\A t \in Waiting :
        (CallbackOf(t) /\ (Len(t.roomMemberIds) = 2 \/ Truthy(t.adminRoomOwner)))
        => /\ HasRoom(adminRooms', t.roomId)
           /\ LET U == RoomEntry(adminRooms', t.roomId).owner
                  found == OwnerScan(adminRooms', U)
              IN found # 0 /\ adminRooms'[found].roomId = t.roomId]_vars

\* C9: when getJoinedMembers rejects, the handler's promise is rejected and
\* the directory, the welcome counts and all that a later classification
\* reads (membership, the latest callback) are as they were.
C9_FetchFailureLeavesNoTrace ==
    [][\A t \in Waiting :
        FetchFailureOf(t)
        => /\ outcome' = Outcome(t.kind, "rejected", t.roomId, FALSE, FALSE)
           /\ adminRooms' = adminRooms
           /\ welcomes' = welcomes
           /\ members' = members
           /\ lastDone' = lastDone]_vars

\* C9 witness: the startup scan's fetch for room 1 failed after an accepted
\* invite had registered and welcomed the room, and both are still there
C9_Witness ==
    /\ outcome = Outcome("scanRoom", "rejected", 1, FALSE, FALSE)
    /\ lastDone.roomId = 1
    /\ HasRoom(adminRooms, 1)
    /\ welcomes[1] = 1

\* C10 (as claimed): a callback with no forced owner whose fetched member
\* list has two members, neither the bot, fails and registers nothing.
C10_TwoWithoutBotFails ==
    [][\A t \in Waiting :
        (/\ CallbackOf(t)
         /\ ~Truthy(t.adminRoomOwner)
         /\ Len(t.roomMemberIds) = 2
         /\ Bot \notin Range(t.roomMemberIds))
        => /\ outcome'.result = "rejected"
           /\ adminRooms' = adminRooms]_vars

\* C11: for every inbound event, also one whose state_key or content is
\* absent, _onEvent returns without raising synchronously
C11_NeverThrowsSynchronously ==
    lastEvent # NoEvent => outcome.result # "threw"

\* the virtual-SMS naming convention for the configured domain
SmsConvention(handle) ==
    /\ Len(handle) >= 4
    /\ handle[1] = "@" /\ handle[2] = "_sms_"
    /\ handle[Len(handle) - 1] = ":" /\ handle[Len(handle)] = HomeserverDomain

\* the last event was an invite, so _onEvent gave its state_key to isBridgeUser
InviteTested ==
    /\ lastEvent.type = "m.room.member"
    /\ lastEvent.hasContent
    /\ lastEvent.membership = "invite"

\* C12: isBridgeUser is total: it answers true exactly for the bot's ID and for
\* the IDs of the virtual-SMS convention on the configured domain (so for every
\* ID getSmsIntent produces), and answers false, without raising, for every
\* other handle, an absent one included
C12_IsBridgeUserTotal ==
    /\ \A n \in PhoneNumbers : isBridgeUser(getSmsIntent(n))
    /\ InviteTested =>
          /\ outcome.result \in {"pending", "resolved"}
          /\ outcome.result = "pending" <=>
                (lastEvent.state_key = Bot \/ SmsConvention(lastEvent.state_key))

\* C13: when two classifications of the same room are in flight together and
\* one has registered the room, the other observes that entry: its callback
\* leaves the entry it finds as it is instead of writing over it
C13_SecondObservesFirst ==
    [][\A t \in Waiting :
          (CallbackOf(t) /\ t.roomId \in raced) =>
             RoomEntry(adminRooms', t.roomId) = RoomEntry(adminRooms, t.roomId)]_vars

\* C14: a room registered with owner U stays registered with owner U in every
\* later state
C14_OwnerNeverChanges ==
    [][\A i \in 1..Len(adminRooms) :
          /\ HasRoom(adminRooms', adminRooms[i].roomId)
          /\ RoomEntry(adminRooms', adminRooms[i].roomId).owner = adminRooms[i].owner]_vars

\* the step settles the join(room_id) request of t
JoinSettles(t) == t.pc = "join" /\ CopiesIn(t, tasks') < CopiesIn(t, tasks)

\* the step is the synchronous part of _onEvent for an invite of a bridge user
BridgeInviteArrives ==
    /\ nHandlers' # nHandlers
    /\ lastEvent' # NoEvent
    /\ InviteTested'
    /\ Truthy(lastEvent'.state_key)
    /\ isBridgeUser(lastEvent'.state_key)

\* C15: for an invite naming a bridge user the router first joins the room as
\* that user, and only when the join has succeeded classifies the room, with
\* newRoom = true and no forced owner; when the join fails nothing is
\* classified and the directory is unchanged
C15_ClassifiesOnlyAfterJoin ==
    [][/\ BridgeInviteArrives =>
             /\ tasks' = tasks (+) SetToBag({Task("event", "join", lastEvent'.room_id,
                                                  Null, TRUE, lastEvent'.state_key, <<>>)})
             /\ adminRooms' = adminRooms
       /\ \A t \in Waiting :
             JoinSettles(t) =>
                /\ adminRooms' = adminRooms /\ welcomes' = welcomes
                /\ \/ /\ t.userId \in members'[t.roomId]
                      /\ tasks' = Move(t, Task("event", "members", t.roomId,
                                               Null, TRUE, t.userId, <<>>))
                      /\ outcome' = outcome
                   \/ /\ tasks' = Settle(t)
                      /\ members' = members
                      /\ outcome' = Outcome("event", "rejected", t.roomId, FALSE, FALSE)
       /\ \A u \in Waiting' :
             (u.kind = "event" /\ u.pc = "members"
                 /\ CopiesIn(u, tasks') > CopiesIn(u, tasks)) =>
                /\ [u EXCEPT !.pc = "join"] \in Waiting
                /\ JoinSettles([u EXCEPT !.pc = "join"])
                /\ u.newRoom /\ ~Truthy(u.adminRoomOwner)]_vars

\* an invite of a bridge user into room 1 was accepted, and the classification
\* that followed the join registered and welcomed the room
C15_Witness ==
    /\ outcome = Outcome("event", "resolved", 1, FALSE, FALSE)
    /\ lastEvent = NoEvent
    /\ lastDone.roomId = 1 /\ ~Truthy(lastDone.adminRoomOwner)
    /\ HasRoom(adminRooms, 1)
    /\ welcomes[1] = 1
    /\ nChanges = 0

\* C16: a message event whose room is registered and whose sender is not the
\* bot is handed to the room's AdminRoom and to _processMessage; a message
\* event the bot sent is never handed to _processMessage
C16_MessageRouting ==
    lastEvent.type = "m.room.message" =>
       /\ (HasRoom(adminRooms, lastEvent.room_id) /\ lastEvent.sender # Bot) =>
              (outcome.dispatched /\ outcome.relayed)
       /\ lastEvent.sender = Bot => ~outcome.relayed

\* a message of Alice in a registered room was dispatched and relayed
C16_Witness ==
    /\ lastEvent.type = "m.room.message"
    /\ lastEvent.sender = Alice
    /\ HasRoom(adminRooms, lastEvent.room_id)
    /\ outcome = Outcome("event", "resolved", lastEvent.room_id, TRUE, TRUE)

\* the startup scan's fetch for room r has answered {bot, one other} and its
\* callback has not run yet
ScanFetched(r) ==
    \E t \in Waiting :
       /\ t.kind = "scanRoom" /\ t.roomId = r /\ t.pc = "then"
       /\ Len(t.roomMemberIds) = 2 /\ Bot \in Range(t.roomMemberIds)

C18_DirectoryOnlyGrows ==
    [][\A i \in 1..Len(adminRooms) : HasRoom(adminRooms', adminRooms[i].roomId)]_vars

\* two rooms are registered and an invite's transport call has failed since
C18_Witness ==
    /\ Len(adminRooms) = 2
    /\ outcome.kind = "event"
    /\ outcome.result = "rejected"

\* the step is the synchronous part of getOrCreateAdminRoom
GetOrCreateStep == nHandlers' # nHandlers /\ outcome'.kind = "getOrCreate"

\* C19: when the directory holds a session owned by userId,
\* getOrCreateAdminRoom(userId) resolves with that session and calls neither
\* createRoom nor getJoinedMembers, and the directory is unchanged; createRoom
\* is called only when no session is owned by userId
C19_ExistingSessionIsReturned ==
    [][GetOrCreateStep =>
          \/ /\ outcome'.result = "resolved"
             /\ HasRoom(adminRooms, outcome'.roomId)
             /\ RoomEntry(adminRooms, outcome'.roomId).owner \in RealUsers
             /\ tasks' = tasks
             /\ createCalls' = createCalls
             /\ adminRooms' = adminRooms
          \/ /\ outcome'.result = "pending"
             /\ createCalls' = createCalls + 1
             /\ \E userId \in RealUsers :
                   /\ \A i \in 1..Len(adminRooms) : adminRooms[i].owner # userId
                   /\ tasks' = tasks (+) SetToBag({Task("getOrCreate", "createRoom", NoRoom,
                                                        userId, FALSE, userId, <<>>)})]_vars

\* getOrCreateAdminRoom resolved with a registered room although createRoom
\* was never called
C19_Witness ==
    /\ outcome.kind = "getOrCreate"
    /\ outcome.result = "resolved"
    /\ HasRoom(adminRooms, outcome.roomId)
    /\ RoomEntry(adminRooms, outcome.roomId).owner = Alice
    /\ createCalls = 0

\* C20: a welcome notice goes to a room only from the classification that
\* follows an accepted invite of a bridge user into that room; the room
\* getOrCreateAdminRoom creates is classified with newRoom = false and that
\* call sends it no welcome notice
C20_WelcomeOnlyAfterInvite ==
    [][/\ \A r \in RoomIds :
             welcomes'[r] # welcomes[r] =>
                \E t \in Waiting :
                   /\ CallbackOf(t)
                   /\ t.kind = "event" /\ t.roomId = r /\ t.newRoom
                   /\ isBridgeUser(t.userId)
                   /\ welcomes'[r] = welcomes[r] + 1
       /\ \A t \in Waiting' : t.kind = "getOrCreate" => ~t.newRoom
       /\ \A t \in Waiting :
             (CallbackOf(t) /\ t.kind = "getOrCreate") => welcomes' = welcomes]_vars

\* room 1 was welcomed after an invite, and getOrCreateAdminRoom has created
\* and registered room 2 without a welcome notice
C20_Witness ==
    /\ outcome = Outcome("getOrCreate", "resolved", 2, FALSE, FALSE)
    /\ createCalls = 1
    /\ HasRoom(adminRooms, 2)
    /\ welcomes[2] = 0
    /\ welcomes[1] = 1
====
